---- MODULE Spec2Model ----
(***************************************************************************)
(* Model of the 5-axis gantry simulator: the App controller (machine       *)
(* state, auto-scan loop, reset), the ControlPanel (inverse offset, TCP    *)
(* space write, direct A/B write) and the MatrixDisplay forward kinematics. *)
(*                                                                         *)
(* Numbers.  A JavaScript number n is modelled as the integer n * Q        *)
(* (fixed point, resolution 1/Q).  Math.sin / Math.cos are a table to      *)
(* three decimals on the angles the model uses; with Q = K * K every       *)
(* product the kinematics forms (at most two sines/cosines and the tool    *)
(* length) is exact at this resolution, so Mul never rounds here.          *)
(*                                                                         *)
(* Scheduling.  React runs a handler, re-renders, and runs the passive     *)
(* effect (useEffect) of that render later: at the latest before the next  *)
(* render.  A requestAnimationFrame callback that is already scheduled may  *)
(* therefore fire between a render and its effect.  A scheduled callback   *)
(* keeps the `animate' closure, hence the isScanning value, of the render  *)
(* that created it.                                                        *)
(***************************************************************************)
EXTENDS Integers, Sequences, FiniteSets, TLC

\* ------------------------------------------------------------------ bounds
\* Manual inputs (edits, toggles, resets, malformed entries) per behaviour.
MaxActions == 3
\* Auto-scan frame timestamps are the phases 0 .. MaxPhase of the orbit,
\* one phase = 15 degrees of orbit angle (t * 0.5).
MaxPhase == 5

\* --------------------------------------------------------------- numbers
K == 10 ^ 3
Q == K * K

\* a * b on fixed-point numbers (floor of the exact product), computed on
\* base-K digits so that no intermediate value leaves the 32-bit range.
Mul(a, b) ==
  LET a1 == a \div K
      a0 == a % K
      b1 == b \div K
      b0 == b % K
  IN  a1 * b1 + ((a1 * b0 + a0 * b1 + ((a0 * b0) \div K)) \div K)

Max(p, q) == IF p >= q THEN p ELSE q
Min(p, q) == IF p <= q THEN p ELSE q

\* sin of whole degrees in the first quadrant, times K.
SinTab ==
  [d \in {0, 7, 10, 13, 15, 30, 45, 60, 75, 77, 80, 83, 90} |->
     CASE d = 0  -> 0
       [] d = 7  -> 122
       [] d = 10 -> 174
       [] d = 13 -> 225
       [] d = 15 -> 259
       [] d = 30 -> 500
       [] d = 45 -> 707
       [] d = 60 -> 866
       [] d = 75 -> 966
       [] d = 77 -> 974
       [] d = 80 -> 985
       [] d = 83 -> 993
       [] d = 90 -> 1000]

\* Math.sin(degToRad(d)) for a whole number of degrees d, as a fixed-point
\* number.
SinDeg(d) ==
  LET m == d % 360
  IN  K * (CASE m <= 90  -> SinTab[m]
             [] m > 90 /\ m <= 180  -> SinTab[180 - m]
             [] m > 180 /\ m <= 270 -> 0 - SinTab[m - 180]
             [] m > 270 -> 0 - SinTab[360 - m])

\* Math.cos(degToRad(d)).
CosDeg(d) == SinDeg(d + 90)

\* THREE.MathUtils.degToRad followed by Math.sin / Math.cos, on a fixed-point
\* angle in degrees (the model only forms whole degrees).
Sin(v) == SinDeg(v \div Q)
Cos(v) == CosDeg(v \div Q)

\* Math.atan2(y, x) * (180 / Math.PI) for a nonzero vector whose direction
\* is a multiple of 15 degrees: the d in (-180, 180] with
\* (x, y) parallel to (cos d, sin d).
Atan2Deg(y, x) ==
  Q * (CHOOSE d \in {15 * i : i \in -11 .. 12} :
         /\ Mul(x, SinDeg(d)) = Mul(y, CosDeg(d))
         /\ Mul(x, CosDeg(d)) + Mul(y, SinDeg(d)) > 0)

\* ------------------------------------------------------------ types.ts
Axes == {"x", "y", "z", "a", "b"}

DEFAULT_LIMITS ==
  [k \in Axes |->
     CASE k = "a" -> [min |-> (0 - 45) * Q, max |-> 45 * Q]
       [] k = "b" -> [min |-> (0 - 180) * Q, max |-> 180 * Q]
       [] OTHER   -> [min |-> 0, max |-> 100 * Q]]

\* Variant: the literal of types.ts without the correction of z that
\* follows it.
INITIAL_STATE_Uncorrected == [x |-> 50 * Q, y |-> 50 * Q, z |-> 80 * Q, a |-> 0, b |-> 0]

INITIAL_STATE == [x |-> 50 * Q, y |-> 50 * Q, z |-> 10 * Q, a |-> 0, b |-> 0]

TOOL_LENGTH_OFFSET == 25

\* ------------------------------------------------- three.js Matrix4, Vector3
\* A Matrix4 is its `elements': 16 numbers, column-major (element of row r,
\* column c, both from 0, at index c * 4 + r + 1).
El(m, r, c) == m[c * 4 + r + 1]

\* Matrix4.set takes its arguments row by row.
MatSet(n11, n12, n13, n14, n21, n22, n23, n24, n31, n32, n33, n34, n41, n42, n43, n44) ==
  << n11, n21, n31, n41, n12, n22, n32, n42,
     n13, n23, n33, n43, n14, n24, n34, n44 >>

Identity4 == MatSet(Q, 0, 0, 0,  0, Q, 0, 0,  0, 0, Q, 0,  0, 0, 0, Q)

makeTranslation(x, y, z) ==
  MatSet(Q, 0, 0, x,  0, Q, 0, y,  0, 0, Q, z,  0, 0, 0, Q)

\* theta is an angle in degrees (fixed point); c = cos, s = sin.
makeRotationX(theta) ==
  LET c == Cos(theta)
      s == Sin(theta)
  IN  MatSet(Q, 0, 0, 0,  0, c, 0 - s, 0,  0, s, c, 0,  0, 0, 0, Q)

makeRotationZ(theta) ==
  LET c == Cos(theta)
      s == Sin(theta)
  IN  MatSet(c, 0 - s, 0, 0,  s, c, 0, 0,  0, 0, Q, 0,  0, 0, 0, Q)

\* Row r of `this' times column c of m.
Dot(this, m, r, c) ==
  Mul(El(this, r, 0), El(m, 0, c)) + Mul(El(this, r, 1), El(m, 1, c))
    + Mul(El(this, r, 2), El(m, 2, c)) + Mul(El(this, r, 3), El(m, 3, c))

\* this.multiply(m) = this * m.
multiply(this, m) ==
  << Dot(this, m, 0, 0), Dot(this, m, 1, 0), Dot(this, m, 2, 0), Dot(this, m, 3, 0),
     Dot(this, m, 0, 1), Dot(this, m, 1, 1), Dot(this, m, 2, 1), Dot(this, m, 3, 1),
     Dot(this, m, 0, 2), Dot(this, m, 1, 2), Dot(this, m, 2, 2), Dot(this, m, 3, 2),
     Dot(this, m, 0, 3), Dot(this, m, 1, 3), Dot(this, m, 2, 3), Dot(this, m, 3, 3) >>

\* Vector3.applyMatrix4 (the perspective divide is by w = 1 for the affine
\* matrices used here).
applyMatrix4(v, m) ==
  [x |-> Mul(El(m, 0, 0), v.x) + Mul(El(m, 0, 1), v.y) + Mul(El(m, 0, 2), v.z) + El(m, 0, 3),
   y |-> Mul(El(m, 1, 0), v.x) + Mul(El(m, 1, 1), v.y) + Mul(El(m, 1, 2), v.z) + El(m, 1, 3),
   z |-> Mul(El(m, 2, 0), v.x) + Mul(El(m, 2, 1), v.y) + Mul(El(m, 2, 2), v.z) + El(m, 2, 3)]

VecSub(u, v) == [x |-> u.x - v.x, y |-> u.y - v.y, z |-> u.z - v.z]

\* ------------------------------------------- ControlPanel: inverse offset
\* delta: the tool vector tilted by A, then rotated by -B, minus the home
\* tool vector.
\* Variant: the home tool vector is not subtracted.
delta_NoHome(a, b) ==
  LET matRotB == makeRotationZ(0 - b)
      matRotA == makeRotationX(a)
      vecTool == [x |-> 0, y |-> 0, z |-> (0 - TOOL_LENGTH_OFFSET) * Q]
  IN  applyMatrix4(applyMatrix4(vecTool, matRotA), matRotB)

\* Variant: B enters the rotation without the sign change.
delta_BNotNegated(a, b) ==
  LET matRotB == makeRotationZ(b)
      matRotA == makeRotationX(a)
      vecTool == [x |-> 0, y |-> 0, z |-> (0 - TOOL_LENGTH_OFFSET) * Q]
      currentOffset == applyMatrix4(applyMatrix4(vecTool, matRotA), matRotB)
      homeOffset == [x |-> 0, y |-> 0, z |-> (0 - TOOL_LENGTH_OFFSET) * Q]
  IN  VecSub(currentOffset, homeOffset)

\* Variant: the tilt A is taken about the Y axis.
delta_TiltAboutY(a, b) ==
  LET matRotB == makeRotationZ(0 - b)
      matRotA == MatSet(Cos(a), 0, Sin(a), 0,  0, Q, 0, 0,  0 - Sin(a), 0, Cos(a), 0,  0, 0, 0, Q)
      vecTool == [x |-> 0, y |-> 0, z |-> (0 - TOOL_LENGTH_OFFSET) * Q]
      currentOffset == applyMatrix4(applyMatrix4(vecTool, matRotA), matRotB)
      homeOffset == [x |-> 0, y |-> 0, z |-> (0 - TOOL_LENGTH_OFFSET) * Q]
  IN  VecSub(currentOffset, homeOffset)

delta(a, b) ==
  LET matRotB == makeRotationZ(0 - b)
      matRotA == makeRotationX(a)
      vecTool == [x |-> 0, y |-> 0, z |-> (0 - TOOL_LENGTH_OFFSET) * Q]
      currentOffset == applyMatrix4(applyMatrix4(vecTool, matRotA), matRotB)
      homeOffset == [x |-> 0, y |-> 0, z |-> (0 - TOOL_LENGTH_OFFSET) * Q]
  IN  VecSub(currentOffset, homeOffset)

\* ------------------------------------- MatrixDisplay: forward kinematics
\* Variant: the chain is Base * RotA * RotB * Tool.
calculateTCP_AOuter(x, y, z, a, b) ==
  LET matTrans == makeTranslation(x, y, z)
      matRotB == makeRotationZ(0 - b)
      matRotA == makeRotationX(a)
      matTool == makeTranslation(0, 0, (0 - TOOL_LENGTH_OFFSET) * Q)
  IN  multiply(multiply(multiply(multiply(Identity4, matTrans), matRotA), matRotB), matTool)

\* Variant: B enters the chain without the sign change.
calculateTCP_BNotNegated(x, y, z, a, b) ==
  LET matTrans == makeTranslation(x, y, z)
      matRotB == makeRotationZ(b)
      matRotA == makeRotationX(a)
      matTool == makeTranslation(0, 0, (0 - TOOL_LENGTH_OFFSET) * Q)
  IN  multiply(multiply(multiply(multiply(Identity4, matTrans), matRotB), matRotA), matTool)

\* Variant: the tool offset is applied before the rotations
\* (Base * Tool * RotB * RotA).
calculateTCP_ToolFirst(x, y, z, a, b) ==
  LET matTrans == makeTranslation(x, y, z)
      matRotB == makeRotationZ(0 - b)
      matRotA == makeRotationX(a)
      matTool == makeTranslation(0, 0, (0 - TOOL_LENGTH_OFFSET) * Q)
  IN  multiply(multiply(multiply(multiply(Identity4, matTrans), matTool), matRotB), matRotA)

calculateTCP(x, y, z, a, b) ==
  LET matTrans == makeTranslation(x, y, z)
      matRotB == makeRotationZ(0 - b)
      matRotA == makeRotationX(a)
      matTool == makeTranslation(0, 0, (0 - TOOL_LENGTH_OFFSET) * Q)
  IN  multiply(multiply(multiply(multiply(Identity4, matTrans), matRotB), matRotA), matTool)

\* Variant: the translation column is left absolute.
displayMatrix_Absolute(s) == calculateTCP(s.x, s.y, s.z, s.a, s.b)

\* The matrix the readout shows: current rotation, translation relative to
\* the pose at (0,0,0,0,0).
displayMatrix(s) ==
  LET currentMat == calculateTCP(s.x, s.y, s.z, s.a, s.b)
      homeMat == calculateTCP(0, 0, 0, 0, 0)
      dX == currentMat[13] - homeMat[13]
      dY == currentMat[14] - homeMat[14]
      dZ == currentMat[15] - homeMat[15]
  IN  [currentMat EXCEPT ![13] = dX, ![14] = dY, ![15] = dZ]

\* --------------------------------------------------- scene: mapRange
\* p / q for a divisor q with at most three decimals, rounded down to the
\* sixth decimal.
Div(p, q) ==
  LET d == q \div K
  IN  (p \div d) * K + ((p % d) * K) \div d

\* Variant: the output span is taken as outMin - outMax.
mapRange_SpanReversed(value, inMin, inMax, outMin, outMax) ==
  Div(Mul(value - inMin, outMin - outMax), inMax - inMin) + outMin

\* Variant: outMin is not added.
mapRange_NoOffset(value, inMin, inMax, outMin, outMax) ==
  Div(Mul(value - inMin, outMax - outMin), inMax - inMin)

mapRange(value, inMin, inMax, outMin, outMax) ==
  Div(Mul(value - inMin, outMax - outMin), inMax - inMin) + outMin

\* GantryAndHead: the three remaps of the scene.
SceneRanges ==
  [k \in {"x", "y", "z"} |->
     IF k = "z"
     THEN [inMin |-> DEFAULT_LIMITS[k].min, inMax |-> DEFAULT_LIMITS[k].max,
           outMin |-> 15 * Q, outMax |-> 9 * Q]
     ELSE [inMin |-> DEFAULT_LIMITS[k].min, inMax |-> DEFAULT_LIMITS[k].max,
           outMin |-> (0 - 4) * Q, outMax |-> 4 * Q]]

\* GantryAndHead: the scene positions rendered for machine state s.
GantryAndHead(s) ==
  LET r == SceneRanges
  IN  [posY |-> mapRange(s.y, r["y"].inMin, r["y"].inMax, r["y"].outMin, r["y"].outMax),
       posX |-> mapRange(s.x, r["x"].inMin, r["x"].inMax, r["x"].outMin, r["x"].outMax),
       headWorldY |-> mapRange(s.z, r["z"].inMin, r["z"].inMax, r["z"].outMin, r["z"].outMax)]

\* ------------------------------------------------ MatrixDisplay: readout
Abs(v) == IF v < 0 THEN 0 - v ELSE v

\* Variant: the threshold is compared with val, not with Math.abs(val).
cleanFloat_NoAbs(val) == IF val < Q \div 1000 THEN 0 ELSE val

\* cleanFloat: magnitudes below 0.001 become 0.
cleanFloat(val) == IF Abs(val) < Q \div 1000 THEN 0 ELSE val

\* Number.prototype.toFixed(2): the text is a "-" when val < 0, then the
\* hundredths nearest to the magnitude (the larger on a tie), written with
\* two decimals; it is modelled by the sign and the number of hundredths.
toFixed2(val) ==
  [neg |-> val < 0, cents |-> (Abs(val) + (Q \div 200)) \div (Q \div 100)]

\* getEl(row, col) on a column-major `elements' array.
getEl(elements, row, col) == toFixed2(cleanFloat(elements[col * 4 + row + 1]))

\* ---------------------------------------------------------------- state
VARIABLES
  state,          \* App: the MachineState record (useState)
  isScanning,     \* App: the scan flag (useState)
  requestRef,     \* App: requestRef.current, 0 for undefined
  frames,         \* animation frames requested and neither fired nor
                  \* cancelled: [id, scanning], scanning = the isScanning
                  \* captured by the `animate' closure that was scheduled
  effectPending,  \* the last render changed [isScanning, animate] and its
                  \* effect has not run yet
  memo,           \* the useMemo caches of the last render: the deps and
                  \* value of ControlPanel's delta and of MatrixDisplay's
                  \* displayMatrix
  last,           \* history: the last step taken, its input and the values
                  \* before it
  actions,        \* history: number of manual inputs so far
  probe           \* the pure function last applied to sample inputs, with
                  \* its inputs and result (used by SpecFn only)

vars == << state, isScanning, requestRef, frames, effectPending, memo, last, actions, probe >>

NoStep == [op |-> "init", key |-> "-", value |-> 0,
           prev |-> INITIAL_STATE, wasScanning |-> FALSE]

Step(op, key, value) ==
  [op |-> op, key |-> key, value |-> value,
   prev |-> state, wasScanning |-> isScanning]

\* ----------------------------------------------------------------- inputs
\* Values typed into (or dragged to on) the A and B controls; the numeric
\* field accepts values outside the slider range.
DirectValues ==
  [k \in {"a", "b"} |->
     IF k = "a" THEN {(0 - 60) * Q, 0, 30 * Q, 60 * Q}
                ELSE {(0 - 270) * Q, 0, 90 * Q, 270 * Q}]

\* Target TCP coordinates entered on the X, Y and Z controls.
TCPTargets == {(0 - 30) * Q, 40 * Q, 130 * Q}

\* Frame timestamps: time = p stands for t = time * 0.001 = p * 30 degrees
\* in radian measure, so that t * 0.5 = 15 p, t * 2 = 60 p, t * 3 = 90 p
\* degrees.
Times == 0 .. MaxPhase

\* ------------------------------------------------- requestAnimationFrame
FrameIds(fr) == {f.id : f \in fr}

\* The handle requestAnimationFrame returns: one that names no pending
\* frame and is not the handle held in requestRef.
FreshId(ref, fr) ==
  CHOOSE n \in 1 .. (Cardinality(fr) + 2) :
    /\ n # ref
    /\ n \notin FrameIds(fr)
    /\ \A m \in 1 .. (n - 1) : m = ref \/ m \in FrameIds(fr)

\* if (requestRef.current) cancelAnimationFrame(requestRef.current)
cancelAnimationFrame(ref, fr) ==
  IF ref # 0 THEN {f \in fr : f.id # ref} ELSE fr

\* One run of the scan effect for a render with flag `scanning': the
\* cleanup of the previous run, then the effect body.
useEffect(scanning, ref, fr) ==
  LET cleaned == cancelAnimationFrame(ref, fr)
  IN  IF scanning
      THEN LET id == FreshId(ref, cleaned)
           IN  [ref |-> id,
                frames |-> cleaned \cup {[id |-> id, scanning |-> scanning]}]
      ELSE [ref |-> ref, frames |-> cancelAnimationFrame(ref, cleaned)]

\* React runs a pending effect before it renders again.
Flushed ==
  IF effectPending THEN useEffect(isScanning, requestRef, frames)
  ELSE [ref |-> requestRef, frames |-> frames]

\* A handler set the flag to `scanning' and the component re-rendered.
Rerender(scanning) ==
  /\ requestRef' = Flushed.ref
  /\ frames' = Flushed.frames
  /\ isScanning' = scanning
  /\ effectPending' = (scanning # isScanning)

\* useMemo: the memoized function runs again when the deps differ from
\* those of the last render, and then reads the props of this render; the
\* cache is kept otherwise.  A cache is modelled by the deps it is keyed on
\* and the arguments its value was computed from (the value is that pure
\* function of them).  ControlPanel's delta has deps [state.a, state.b],
\* MatrixDisplay's displayMatrix has [state].
\* Variant: the dependency list of delta names state.a only.
Rendered_DepsAOnly(cache, s) ==
  [deltaDeps |-> << s.a, s.b >>,
   deltaArgs |-> IF cache.deltaDeps[1] = s.a THEN cache.deltaArgs ELSE << s.a, s.b >>,
   matrixDeps |-> s,
   matrixArgs |-> IF cache.matrixDeps = s THEN cache.matrixArgs ELSE s]

Rendered(cache, s) ==
  [deltaDeps |-> << s.a, s.b >>,
   deltaArgs |-> IF cache.deltaDeps = << s.a, s.b >> THEN cache.deltaArgs
                 ELSE << s.a, s.b >>,
   matrixDeps |-> s,
   matrixArgs |-> IF cache.matrixDeps = s THEN cache.matrixArgs ELSE s]

\* The caches after the first render.
Mounted(s) ==
  [deltaDeps |-> << s.a, s.b >>, deltaArgs |-> << s.a, s.b >>,
   matrixDeps |-> s, matrixArgs |-> s]

\* The offset vector the ControlPanel uses and the matrix the readout shows.
shownDelta == delta(memo.deltaArgs[1], memo.deltaArgs[2])
shownMatrix == displayMatrix(memo.matrixArgs)

NoProbe == [fn |-> "none"]

\* ------------------------------------------------------------------ App
\* Variant: Math.min and Math.max exchanged.
Clamp_Swapped(limit, v) == Min(limit.min, Max(limit.max, v))

Clamp(limit, v) == Max(limit.min, Min(limit.max, v))

\* Variant: the updater spreads INITIAL_STATE where it should spread prev.
updateState_SpreadsInitial(key, value) ==
  /\ state' = [INITIAL_STATE EXCEPT ![key] = value]
  /\ memo' = Rendered(memo, state')
  /\ Rerender(FALSE)

\* updateState: a manual write stops the scan and stores the value.
updateState(key, value) ==
  /\ state' = [state EXCEPT ![key] = value]
  /\ memo' = Rendered(memo, state')
  /\ Rerender(FALSE)

\* The state the setState updater of animate returns for timestamp `time'.
Orbit(time) ==
  LET centerX == 50 * Q
      centerY == 50 * Q
      radius == 40 * Q
      newX == centerX + Mul(CosDeg(15 * time), radius)
      newY == centerY + Mul(SinDeg(15 * time), radius)
      newZ == 15 * Q + Mul(SinDeg(60 * time), 5 * Q)
      dx == centerX - newX
      dy == centerY - newY
      targetB == Atan2Deg(dx, dy)
      baseTilt == 10 * Q
      newA == baseTilt + Mul(SinDeg(90 * time), 3 * Q)
  IN  [x |-> Clamp(DEFAULT_LIMITS["x"], newX),
       y |-> Clamp(DEFAULT_LIMITS["y"], newY),
       z |-> Clamp(DEFAULT_LIMITS["z"], newZ),
       a |-> Clamp(DEFAULT_LIMITS["a"], newA),
       b |-> Clamp(DEFAULT_LIMITS["b"], targetB)]

\* The orbit state of every timestamp of Times.
OrbitStates == [time \in Times |-> Orbit(time)]

\* Variant: the updater keeps the previous Z (it spreads prev and omits z).
animate_KeepsZ(f, time) ==
  /\ f \in frames
  /\ LET rest == frames \ {f}
     IN  IF ~f.scanning
         THEN /\ frames' = rest
              /\ UNCHANGED << state, requestRef, effectPending, memo >>
         ELSE LET run == IF effectPending
                         THEN useEffect(isScanning, requestRef, rest)
                         ELSE [ref |-> requestRef, frames |-> rest]
                  id == FreshId(run.ref, run.frames)
              IN  /\ state' = [OrbitStates[time] EXCEPT !.z = state.z]
                  /\ memo' = Rendered(memo, state')
                  /\ requestRef' = id
                  /\ frames' = run.frames \cup {[id |-> id, scanning |-> f.scanning]}
                  /\ effectPending' = FALSE
  /\ last' = Step("frame", "-", time)
  /\ UNCHANGED << isScanning, actions, probe >>

\* Variant: the callback writes the orbit state and requests no frame.
animate_NoReschedule(f, time) ==
  /\ f \in frames
  /\ LET rest == frames \ {f}
     IN  IF ~f.scanning
         THEN /\ frames' = rest
              /\ UNCHANGED << state, requestRef, effectPending, memo >>
         ELSE LET run == IF effectPending
                         THEN useEffect(isScanning, requestRef, rest)
                         ELSE [ref |-> requestRef, frames |-> rest]
              IN  /\ state' = OrbitStates[time]
                  /\ memo' = Rendered(memo, state')
                  /\ requestRef' = run.ref
                  /\ frames' = run.frames
                  /\ effectPending' = FALSE
  /\ last' = Step("frame", "-", time)
  /\ UNCHANGED << isScanning, actions, probe >>

\* A scheduled frame callback fires.  With the captured flag false it
\* returns at once; otherwise it writes the orbit state (the re-render this
\* causes first runs a pending effect) and requests the next frame for the
\* same closure.
animate(f, time) ==
  /\ f \in frames
  /\ LET rest == frames \ {f}
     IN  IF ~f.scanning
         THEN /\ frames' = rest
              /\ UNCHANGED << state, requestRef, effectPending, memo >>
         ELSE LET run == IF effectPending
                         THEN useEffect(isScanning, requestRef, rest)
                         ELSE [ref |-> requestRef, frames |-> rest]
                  id == FreshId(run.ref, run.frames)
              IN  /\ state' = OrbitStates[time]
                  /\ memo' = Rendered(memo, state')
                  /\ requestRef' = id
                  /\ frames' = run.frames \cup {[id |-> id, scanning |-> f.scanning]}
                  /\ effectPending' = FALSE
  /\ last' = Step("frame", "-", time)
  /\ UNCHANGED << isScanning, actions, probe >>

\* The effect of the last render runs.
RunEffect ==
  /\ effectPending
  /\ requestRef' = Flushed.ref
  /\ frames' = Flushed.frames
  /\ effectPending' = FALSE
  /\ last' = Step("effect", "-", 0)
  /\ UNCHANGED << state, isScanning, memo, actions, probe >>

handleReset ==
  /\ actions < MaxActions
  /\ state' = INITIAL_STATE
  /\ memo' = Rendered(memo, state')
  /\ Rerender(FALSE)
  /\ last' = Step("reset", "-", 0)
  /\ actions' = actions + 1
  /\ UNCHANGED probe

\* Variant: starting or stopping the scan also puts the axes back at the
\* initial state.
onToggleScan_Resets ==
  /\ actions < MaxActions
  /\ Rerender(~isScanning)
  /\ last' = Step("toggle", "-", 0)
  /\ actions' = actions + 1
  /\ state' = INITIAL_STATE
  /\ memo' = Rendered(memo, state')
  /\ UNCHANGED probe

onToggleScan ==
  /\ actions < MaxActions
  /\ Rerender(~isScanning)
  /\ last' = Step("toggle", "-", 0)
  /\ actions' = actions + 1
  /\ memo' = Rendered(memo, state)
  /\ UNCHANGED << state, probe >>

\* --------------------------------------------------------- ControlPanel
\* An A or B control reports value v: onChange -> onUpdate(key, v).
onUpdate(key, v) ==
  /\ actions < MaxActions
  /\ updateState(key, v)
  /\ last' = Step("direct", key, v)
  /\ actions' = actions + 1
  /\ UNCHANGED probe

\* Variant: the back-solved motor value is written without the clamp.
updateTCP_NoClamp(axis, targetTCPVal) ==
  /\ actions < MaxActions
  /\ LET d == delta(state.a, state.b)
         motorVal == targetTCPVal - d[axis]
     IN  updateState(axis, motorVal)
  /\ last' = Step("tcp", axis, targetTCPVal)
  /\ actions' = actions + 1
  /\ UNCHANGED probe

\* Variant: the clamp is applied to the TCP target, before the offset is
\* taken off.
updateTCP_ClampsTarget(axis, targetTCPVal) ==
  /\ actions < MaxActions
  /\ LET d == delta(state.a, state.b)
         limit == DEFAULT_LIMITS[axis]
         motorVal == Clamp(limit, targetTCPVal) - d[axis]
     IN  updateState(axis, motorVal)
  /\ last' = Step("tcp", axis, targetTCPVal)
  /\ actions' = actions + 1
  /\ UNCHANGED probe

\* Variant: the target is taken as an increment of the motor value.
updateTCP_Relative(axis, targetTCPVal) ==
  /\ actions < MaxActions
  /\ LET d == delta(state.a, state.b)
         motorVal == state[axis] + targetTCPVal - d[axis]
         limit == DEFAULT_LIMITS[axis]
         clampedMotorVal == Clamp(limit, motorVal)
     IN  updateState(axis, clampedMotorVal)
  /\ last' = Step("tcp", axis, targetTCPVal)
  /\ actions' = actions + 1
  /\ UNCHANGED probe

\* An X, Y or Z control reports the target TCP value.
updateTCP(axis, targetTCPVal) ==
  /\ actions < MaxActions
  /\ LET d == delta(state.a, state.b)
         motorVal == targetTCPVal - d[axis]
         limit == DEFAULT_LIMITS[axis]
         clampedMotorVal == Clamp(limit, motorVal)
     IN  updateState(axis, clampedMotorVal)
  /\ last' = Step("tcp", axis, targetTCPVal)
  /\ actions' = actions + 1
  /\ UNCHANGED probe

\* Text in a numeric field is a sequence of characters.
DigitChars == << "0", "1", "2", "3", "4", "5", "6", "7", "8", "9" >>

IsDigit(c) == \E i \in 1 .. 10 : DigitChars[i] = c

DigitVal(c) == (CHOOSE i \in 1 .. 10 : DigitChars[i] = c) - 1

\* A decimal literal: an optional "-", digits, and optionally "." and
\* digits.
IsNumberText(text) ==
  LET body == IF text # << >> /\ text[1] = "-" THEN Tail(text) ELSE text
      dots == {i \in 1 .. Len(body) : body[i] = "."}
  IN  /\ body # << >>
      /\ \A i \in 1 .. Len(body) : IsDigit(body[i]) \/ body[i] = "."
      /\ Cardinality(dots) <= 1
      /\ 1 \notin dots /\ Len(body) \notin dots

\* e.target.value of <input type="number">: the empty string when what
\* was typed is not a number.
inputValue(text) == IF IsNumberText(text) THEN text ELSE << >>

\* A parsed number: NaN, or a value.
NaN == [nan |-> TRUE]

isNaN(val) == val.nan

RECURSIVE DigitsValue(_)
DigitsValue(ds) ==
  IF ds = << >> THEN 0
  ELSE DigitsValue(SubSeq(ds, 1, Len(ds) - 1)) * 10 + DigitVal(ds[Len(ds)])

\* parseFloat: the value of the longest prefix that is a decimal literal,
\* NaN when there is none.
parseFloat(text) ==
  LET lens == {n \in 1 .. Len(text) : IsNumberText(SubSeq(text, 1, n))}
  IN  IF lens = {} THEN NaN
      ELSE LET n == CHOOSE m \in lens : \A j \in lens : j <= m
               lit == SubSeq(text, 1, n)
               neg == lit[1] = "-"
               body == IF neg THEN Tail(lit) ELSE lit
               dot == IF \E i \in 1 .. Len(body) : body[i] = "."
                      THEN CHOOSE i \in 1 .. Len(body) : body[i] = "."
                      ELSE Len(body) + 1
               whole == DigitsValue(SubSeq(body, 1, dot - 1))
               frac == SubSeq(body, dot + 1, Min(Len(body), dot + 6))
               mag == whole * Q + DigitsValue(frac) * (10 ^ (6 - Len(frac)))
           IN  [nan |-> FALSE, num |-> IF neg THEN 0 - mag ELSE mag]

\* What a user may type into a numeric field.
Texts ==
  {<< >>, << "a", "b", "c" >>, << "-" >>, << "." >>, << "1", "2", "a" >>,
   << "1", ".", ".", "2" >>, << "-", "-", "5" >>, << "e" >>,
   << "4", "0" >>, << "-", "3", "0" >>, << "2", "7", ".", "5" >>}

\* Variant: on NaN the handler falls back to the value the axis has and
\* reports it through onChange.
onMalformed_WritesBack(key, text) ==
  /\ actions < MaxActions
  /\ LET val == parseFloat(inputValue(text))
     IN  /\ isNaN(val)
         /\ updateState(key, state[key])
  /\ last' = Step("malformed", key, 0)
  /\ actions' = actions + 1
  /\ UNCHANGED probe

\* The numeric field of axis `key' holds text that parseFloat turns into
\* NaN: onChange is not called.
onMalformed(key, text) ==
  /\ actions < MaxActions
  /\ LET val == parseFloat(inputValue(text))
     IN  isNaN(val)
  /\ last' = Step("malformed", key, 0)
  /\ actions' = actions + 1
  /\ UNCHANGED << state, isScanning, requestRef, frames, effectPending, memo, probe >>

\* The props of the X, Y and Z AxisControls of the last render.
TCPControls ==
  LET d == shownDelta
  IN  [k \in {"x", "y", "z"} |->
         [value |-> state[k] + d[k],
          min |-> DEFAULT_LIMITS[k].min + d[k],
          max |-> DEFAULT_LIMITS[k].max + d[k]]]

\* ---------------------------------------------------------- specification
Init ==
  /\ state = INITIAL_STATE
  /\ isScanning = FALSE
  /\ requestRef = 0
  /\ frames = {}
  /\ effectPending = FALSE
  /\ memo = Mounted(INITIAL_STATE)
  /\ last = NoStep
  /\ actions = 0
  /\ probe = NoProbe

Next ==
  \/ \E k \in {"a", "b"} : \E v \in DirectValues[k] : onUpdate(k, v)
  \/ \E k \in {"x", "y", "z"} : \E v \in TCPTargets : updateTCP(k, v)
  \/ \E k \in Axes : \E text \in Texts : onMalformed(k, text)
  \/ onToggleScan
  \/ handleReset
  \/ \E f \in frames : \E time \in Times : animate(f, time)
  \/ RunEffect

Spec == Init /\ [][Next]_vars

\* The browser runs every requested frame that is not cancelled, and React
\* runs every pending effect.
LiveSpec ==
  /\ Spec
  /\ WF_vars(\E f \in frames : \E time \in Times : animate(f, time))
  /\ WF_vars(RunEffect)

\* ------------------------------------------------------------ properties
\* C1: in every reachable state each of the five axis values lies within
\* its configured limit [min, max].
C1_AxesWithinLimits ==
  \A k \in Axes :
    DEFAULT_LIMITS[k].min <= state[k] /\ state[k] <= DEFAULT_LIMITS[k].max

\* C2: a direct write of v to axis a or b stores v when v is within the
\* limits of the axis and the nearest bound otherwise.
C2_DirectWriteSaturates ==
  last.op = "direct" =>
    LET lo == DEFAULT_LIMITS[last.key].min
        hi == DEFAULT_LIMITS[last.key].max
    IN  state[last.key] =
          IF last.value < lo THEN lo
          ELSE IF last.value > hi THEN hi ELSE last.value

\* C3: a frame callback that fires while isScanning is false (a stop was
\* requested) leaves the machine state as it was.
C3_NoOrbitWriteAfterStop ==
  (last.op = "frame" /\ ~last.wasScanning) => state = last.prev

\* C4: a manual axis edit leaves isScanning false, and the frame tick that
\* follows the edit leaves the edited axis at the value the edit wrote.
C4_ManualEditWins ==
  /\ [](last.op \in {"direct", "tcp"} => ~isScanning)
  /\ [][(last.op \in {"direct", "tcp"} /\ last'.op = "frame")
          => state'[last.key] = state[last.key]]_vars

\* C5: updateTCP(k, v) writes v - offset(a,b)[k], saturated at the limits
\* of axis k, as the motor value of axis k, with the offset of the a and b
\* current at the write.
C5_TCPWrite ==
  last.op = "tcp" =>
    LET k == last.key
        lo == DEFAULT_LIMITS[k].min
        hi == DEFAULT_LIMITS[k].max
        m == last.value - delta(last.prev.a, last.prev.b)[k]
    IN  state[k] = IF m < lo THEN lo ELSE IF m > hi THEN hi ELSE m

\* A TCP-space write just happened with both gimbal angles nonzero, a
\* nonzero offset on the written axis and a motor value strictly inside the
\* limits.
C5_Witness ==
  /\ last.op = "tcp"
  /\ state.a # 0 /\ state.b # 0
  /\ delta(state.a, state.b)[last.key] # 0
  /\ DEFAULT_LIMITS[last.key].min < state[last.key]
  /\ state[last.key] < DEFAULT_LIMITS[last.key].max

\* C6: after a TCP-space write of v on axis k the translation of the
\* displayed pose on k equals the stored motor value plus offset(a,b)[k];
\* it equals v when v - offset(a,b)[k] was within the limits, and differs
\* from v when the motor value was clamped.
C6_RoundTrip ==
  last.op = "tcp" =>
    LET k == last.key
        i == CASE k = "x" -> 13 [] k = "y" -> 14 [] k = "z" -> 15
        d == delta(state.a, state.b)[k]
        m == last.value - d
        inRange == DEFAULT_LIMITS[k].min <= m /\ m <= DEFAULT_LIMITS[k].max
        shown == displayMatrix(state)[i]
    IN  /\ shown = state[k] + d
        /\ inRange => shown = last.value
        /\ ~inRange => shown # last.value

\* A TCP-space write at nonzero a and b whose motor value was clamped.
C6_Witness ==
  /\ last.op = "tcp"
  /\ state.a # 0 /\ state.b # 0
  /\ delta(state.a, state.b)[last.key] # 0
  /\ LET m == last.value - delta(state.a, state.b)[last.key]
     IN  m > DEFAULT_LIMITS[last.key].max

\* C7: with a = b = 0 the translation of the displayed pose is (x, y, z).
C7_ZeroAnglesTranslation ==
  (state.a = 0 /\ state.b = 0) =>
    LET m == displayMatrix(state)
    IN  m[13] = state.x /\ m[14] = state.y /\ m[15] = state.z

\* The zero state (0,0,0,0,0), reached by three saturating TCP writes.
C7_Witness ==
  /\ state = [x |-> 0, y |-> 0, z |-> 0, a |-> 0, b |-> 0]
  /\ last.op = "tcp"

\* C8 as stated: at (50, 50, 10, 0, 0) the displayed translation is
\* (0, 0, 0) and the absolute TCP is (50, 50, 10 - 25).
C8_InitialPoseIsOrigin ==
  state = [x |-> 50 * Q, y |-> 50 * Q, z |-> 10 * Q, a |-> 0, b |-> 0] =>
    LET m == displayMatrix(state)
        raw == calculateTCP(state.x, state.y, state.z, state.a, state.b)
    IN  /\ m[13] = 0 /\ m[14] = 0 /\ m[15] = 0
        /\ raw[13] = 50 * Q /\ raw[14] = 50 * Q /\ raw[15] = (10 - 25) * Q

\* C8 amended: the program starts at (50, 50, 10, 0, 0) and a reset returns
\* to it; there the displayed translation, relative to the pose at
\* (0,0,0,0,0), is (50, 50, 10) and the absolute TCP is (50, 50, 10 - 25).
C8_InitialPose ==
  (last.op \in {"init", "reset"}) =>
    LET m == displayMatrix(state)
        raw == calculateTCP(state.x, state.y, state.z, state.a, state.b)
    IN  /\ state.a = 0 /\ state.b = 0
        /\ m[13] = 50 * Q /\ m[14] = 50 * Q /\ m[15] = 10 * Q
        /\ raw[13] = 50 * Q /\ raw[14] = 50 * Q /\ raw[15] = (10 - 25) * Q

\* A reset has just brought a moved and tilted machine back.
C8_Witness ==
  /\ last.op = "reset"
  /\ last.prev.a # 0
  /\ last.prev.z # 10 * Q

\* C9: at a = b = 0 the offset is the zero vector, each TCP control shows
\* the raw motor coordinate and its bounds are the motor limits.
C9_ZeroOffsetAtZeroAngles ==
  (state.a = 0 /\ state.b = 0) =>
    LET d == delta(state.a, state.b)
    IN  /\ d = [x |-> 0, y |-> 0, z |-> 0]
        /\ \A k \in {"x", "y", "z"} :
             /\ state[k] + d[k] = state[k]
             /\ DEFAULT_LIMITS[k].min + d[k] = 0
             /\ DEFAULT_LIMITS[k].max + d[k] = 100 * Q

\* A TCP control has been used at zero gimbal angles.
C9_Witness ==
  /\ state.a = 0 /\ state.b = 0
  /\ last.op = "tcp"
  /\ state # INITIAL_STATE

PoseInputs ==
  [x : {0, 27500000, 100 * Q}, y : {0, 60352000}, z : {10 * Q, 100 * Q},
   a : {(0 - 45) * Q, (0 - 30) * Q, 0, 7 * Q, 13 * Q, 45 * Q, 60 * Q},
   b : {(0 - 180) * Q, (0 - 90) * Q, (0 - 15) * Q, 0, 45 * Q, 90 * Q, 270 * Q}]

\* The readout and the control panel are evaluated on machine state s.
ApplyPose(s) ==
  /\ probe = NoProbe
  /\ probe' = [fn |-> "pose", s |-> s,
               matrix |-> displayMatrix(s), delta |-> delta(s.a, s.b)]
  /\ UNCHANGED << state, isScanning, requestRef, frames, effectPending, memo, last, actions >>

\* Matrix entries the readout is given: zero, noise below the threshold of
\* either sign, the threshold itself, values just above it, values on a
\* rounding tie and ordinary entries.
EntryInputs ==
  {0, 1, 0 - 1, 500, 0 - 500, 999, 0 - 999, 1000, 0 - 1000, 1001, 0 - 1001,
   4000, 0 - 4000, 5000, 0 - 5000, 12345, 0 - 12345, 612262, 0 - 707000,
   Q, 1005000, 17675000, 0 - 7325000, 58837500}

\* The readout renders entry (row, col) of a matrix holding val there.
ApplyGetEl(val, row, col) ==
  /\ probe = NoProbe
  /\ LET elements == [Identity4 EXCEPT ![col * 4 + row + 1] = val]
     IN  probe' = [fn |-> "getEl", val |-> val, row |-> row, col |-> col,
                   out |-> getEl(elements, row, col)]
  /\ UNCHANGED << state, isScanning, requestRef, frames, effectPending, memo, last, actions >>

\* Values a clamp is given for axis k: around and at both limits, inside
\* and far outside.
ClampInputs(k) ==
  LET lo == DEFAULT_LIMITS[k].min
      hi == DEFAULT_LIMITS[k].max
  IN  {lo - 500 * Q, lo - 1, lo, lo + 1, (lo + hi) \div 2, 12345678,
       hi - 1, hi, hi + 1, hi + 500 * Q}

\* The clamp of updateTCP and of animate, applied to w and to its own
\* result.
ApplyClamp(k, w) ==
  /\ probe = NoProbe
  /\ LET limit == DEFAULT_LIMITS[k]
     IN  probe' = [fn |-> "clamp", key |-> k, w |-> w,
                   once |-> Clamp(limit, w),
                   twice |-> Clamp(limit, Clamp(limit, w))]
  /\ UNCHANGED << state, isScanning, requestRef, frames, effectPending, memo, last, actions >>

\* Axis values the scene is rendered for: both limits, values between
\* them (whole, fractional, and with no finite quotient) and values outside.
MapInputs(k) ==
  LET lo == DEFAULT_LIMITS[k].min
      hi == DEFAULT_LIMITS[k].max
  IN  {lo, hi, (lo + hi) \div 2, lo + 1, hi - 1, 27500000, 50 * Q,
       88639999, 12499500, 25 * Q, lo - 5 * Q, hi + 5 * Q}

\* GantryAndHead maps the value of axis k into scene units.
ApplyMapRange(k, value) ==
  /\ probe = NoProbe
  /\ LET r == SceneRanges[k]
     IN  probe' = [fn |-> "mapRange", key |-> k, value |-> value,
                   out |-> mapRange(value, r.inMin, r.inMax, r.outMin, r.outMax)]
  /\ UNCHANGED << state, isScanning, requestRef, frames, effectPending, memo, last, actions >>

NextFn ==
  \/ \E s \in PoseInputs : ApplyPose(s)
  \/ \E val \in EntryInputs : \E row \in 0 .. 2 : \E col \in 0 .. 3 : ApplyGetEl(val, row, col)
  \/ \E k \in Axes : \E w \in ClampInputs(k) : ApplyClamp(k, w)
  \/ \E k \in {"x", "y", "z"} : \E value \in MapInputs(k) : ApplyMapRange(k, value)

SpecFn == Init /\ [][NextFn]_vars

\* C11: for every (x, y, z, a, b) the translation of the displayed pose
\* minus (x, y, z) is offset(a, b), so the value each X/Y/Z control shows
\* (motor + offset) is the translation column of the displayed matrix.
C11_PoseMinusMotorIsOffset ==
  probe.fn = "pose" =>
    /\ probe.matrix[13] - probe.s.x = probe.delta.x
    /\ probe.matrix[14] - probe.s.y = probe.delta.y
    /\ probe.matrix[15] - probe.s.z = probe.delta.z
    /\ probe.s.x + probe.delta.x = probe.matrix[13]
    /\ probe.s.y + probe.delta.y = probe.matrix[14]
    /\ probe.s.z + probe.delta.z = probe.matrix[15]

\* Both angles are nonzero, the offset is nonzero on all three axes and the
\* motor position is fractional.
C11_Witness ==
  /\ probe.fn = "pose"
  /\ probe.s.a # 0 /\ probe.s.b # 0
  /\ probe.delta.x # 0 /\ probe.delta.y # 0 /\ probe.delta.z # 0
  /\ probe.s.x = 27500000


\* C12: a matrix entry of magnitude below 0.001 is shown as an unsigned
\* zero ("0.00"); every other entry is shown with its sign and the
\* hundredths nearest to its magnitude.
C12_ReadoutCleanup ==
  probe.fn = "getEl" =>
    IF probe.val > 0 - 1000 /\ probe.val < 1000
    THEN probe.out = [neg |-> FALSE, cents |-> 0]
    ELSE /\ probe.out.neg = (probe.val < 0)
         /\ LET mag == IF probe.val < 0 THEN 0 - probe.val ELSE probe.val
                shownMag == probe.out.cents * 10000
            IN  shownMag - mag <= 5000 /\ mag - shownMag <= 5000

\* A negative entry below the threshold has been rendered.
C12_Witness ==
  /\ probe.fn = "getEl"
  /\ probe.val < 0 /\ probe.val > 0 - 1000


\* C13: non-numeric text in the numeric field of an axis updates nothing:
\* the five axis values and the isScanning flag are what they were.
C13_MalformedInputIgnored ==
  last.op = "malformed" =>
    /\ state = last.prev
    /\ isScanning = last.wasScanning

\* Non-numeric text has been entered while a scan was running and after
\* the axes had moved away from their initial values.
C13_Witness ==
  /\ last.op = "malformed"
  /\ last.wasScanning
  /\ last.prev # INITIAL_STATE


\* C14: the clamp is idempotent, and a value within the limits of its axis
\* is returned as it is.
C14_ClampIdempotent ==
  probe.fn = "clamp" =>
    /\ probe.twice = probe.once
    /\ (DEFAULT_LIMITS[probe.key].min <= probe.w /\ probe.w <= DEFAULT_LIMITS[probe.key].max)
         => probe.once = probe.w

\* An in-range value strictly between the limits has been clamped.
C14_Witness ==
  /\ probe.fn = "clamp"
  /\ DEFAULT_LIMITS[probe.key].min < probe.w
  /\ probe.w < DEFAULT_LIMITS[probe.key].max


\* C15: what is shown is a function of the current state only: after every
\* sequence of edits, frames and resets the memoized offset and pose are
\* the ones the kinematics functions give for the current (x, y, z, a, b)
\* (the shown pose is displayMatrix of memo.matrixArgs).
C15_ShownIsFunctionOfState ==
  /\ memo.deltaArgs = << state.a, state.b >>
  /\ memo.matrixArgs = state
  /\ shownDelta = delta(state.a, state.b)

\* The initial state has been reached again by a reset after edits that
\* had turned the head; the render reused nothing from before.
C15_Witness ==
  /\ last.op = "reset"
  /\ last.prev.b # 0
  /\ last.prev.x # INITIAL_STATE.x
  /\ state = INITIAL_STATE


\* C16: at a = 45, b = 0 with the tool vector (0, 0, -25) the offset has
\* X = 0 and nonzero Y and Z, of magnitude 25 sin 45 (17.68 to two
\* decimals) on one and 25 (1 - cos 45) (7.32 to two decimals) on the
\* other.
C16_TiltScenario ==
  (probe.fn = "pose" /\ probe.s.a = 45 * Q /\ probe.s.b = 0) =>
    LET d == probe.delta
        long == Mul(TOOL_LENGTH_OFFSET * Q, SinDeg(45))
        short == Mul(TOOL_LENGTH_OFFSET * Q, Q - CosDeg(45))
    IN  /\ d.x = 0
        /\ d.y # 0 /\ d.z # 0
        /\ \/ Abs(d.y) = long /\ Abs(d.z) = short
           \/ Abs(d.y) = short /\ Abs(d.z) = long
        /\ Abs(long - 17680000) <= 10000
        /\ Abs(short - 7320000) <= 10000

\* The offset has been computed at a = 45, b = 0.
C16_Witness ==
  /\ probe.fn = "pose"
  /\ probe.s.a = 45 * Q /\ probe.s.b = 0
  /\ probe.delta.y > 17 * Q


\* C17: the pose shown is T(x,y,z) . Rz(-b) . Rx(a) . T(0,0,-TOOL) with
\* the translation taken relative to the pose at (0,0,0,0,0); its rotation
\* block is Rz(-b) . Rx(a), the same for every x, y, z, and the identity
\* at a = b = 0.
C17_PoseComposition ==
  probe.fn = "pose" =>
    LET s == probe.s
        rot == multiply(makeRotationZ(0 - s.b), makeRotationX(s.a))
        tool == makeTranslation(0, 0, (0 - TOOL_LENGTH_OFFSET) * Q)
        M == multiply(makeTranslation(s.x, s.y, s.z), multiply(rot, tool))
        Home == multiply(makeTranslation(0, 0, 0), tool)
        atOrigin == displayMatrix([s EXCEPT !.x = 0, !.y = 0, !.z = 0])
        block == {1, 2, 3, 5, 6, 7, 9, 10, 11}
    IN  /\ \A i \in block : probe.matrix[i] = rot[i]
        /\ \A i \in block : probe.matrix[i] = atOrigin[i]
        /\ \A i \in 13 .. 15 : probe.matrix[i] = M[i] - Home[i]
        /\ \A i \in {4, 8, 12} : probe.matrix[i] = 0
        /\ probe.matrix[16] = Q
        /\ (s.a = 0 /\ s.b = 0) => \A i \in block : probe.matrix[i] = Identity4[i]

\* A pose with both rotations and a base translation has been computed.
C17_Witness ==
  /\ probe.fn = "pose"
  /\ probe.s.a = 60 * Q /\ probe.s.b = 45 * Q
  /\ probe.s.x # 0 /\ probe.s.y # 0
  /\ probe.matrix[1] # Q /\ probe.matrix[11] # Q


\* C18: a step that leaves a and b as they are (a TCP-space write, a frame)
\* leaves the offset as it is (shownDelta is delta of memo.deltaArgs, which
\* the step keeps), and a TCP-space write repeated with the same axis and
\* target leaves the state as the first write made it.
C18_OffsetFrameAndOneStepSolve ==
  [][/\ (state'.a = state.a /\ state'.b = state.b)
          => (memo'.deltaArgs = memo.deltaArgs /\ memo'.deltaArgs = << state'.a, state'.b >>)
     /\ (/\ last.op = "tcp" /\ last'.op = "tcp"
         /\ last'.key = last.key /\ last'.value = last.value)
          => state' = state]_vars

\* With the head tilted, a TCP-space write on Y has been repeated: the
\* motor value it found the first time (40 - 12.5) is still there.
C18_Witness ==
  /\ last.op = "tcp" /\ last.key = "y" /\ last.value = 40 * Q
  /\ last.prev = state
  /\ state.a = 30 * Q
  /\ state.y = 27500000


\* C19: while the scan is on, every frame callback writes the clamped orbit
\* state for its timestamp and leaves exactly one new frame requested,
\* named by requestRef; and if the scan stays on for good, frame writes
\* keep happening.
C19_ScanLoopNeverStalls ==
  /\ [][(isScanning /\ isScanning' /\ last'.op = "frame") =>
          /\ state' = OrbitStates[last'.value]
          /\ \A k \in Axes : /\ DEFAULT_LIMITS[k].min <= state'[k]
                             /\ state'[k] <= DEFAULT_LIMITS[k].max
          /\ \E f \in frames :
               LET rest == frames \ {f}
                   kept == IF effectPending
                           THEN useEffect(isScanning, requestRef, rest).frames
                           ELSE rest
               IN  /\ kept \subseteq frames'
                   /\ Cardinality(frames' \ kept) = 1
                   /\ \A g \in frames' \ kept : g.id = requestRef' /\ g.scanning]_vars
  /\ (<>[]isScanning) =>
       []<><<\E f \in frames : \E time \in Times : animate(f, time)>>_vars

\* The scan is on, a frame has written an orbit state after an earlier
\* frame had moved the axes, and the next frame is requested.
C19_Witness ==
  /\ isScanning
  /\ last.op = "frame" /\ last.wasScanning
  /\ last.prev # INITIAL_STATE /\ state # last.prev
  /\ \E f \in frames : f.id = requestRef /\ f.scanning


\* C20: mapRange sends inMin to outMin and inMax to outMax, is affine in
\* between (out - outMin is to outMax - outMin as value - inMin is to
\* inMax - inMin, up to the rounding of the quotient), and for a value
\* within [inMin, inMax] the result lies between outMin and outMax, also
\* on the Z mapping, whose outMin 15 is above its outMax 9.
C20_MapRangeAffine ==
  probe.fn = "mapRange" =>
    LET r == SceneRanges[probe.key]
        inSpan == r.inMax - r.inMin
        outSpan == r.outMax - r.outMin
    IN  /\ probe.value = r.inMin => probe.out = r.outMin
        /\ probe.value = r.inMax => probe.out = r.outMax
        /\ Abs(Mul(probe.out - r.outMin, inSpan) - Mul(probe.value - r.inMin, outSpan))
             <= inSpan \div Q + 1
        /\ (r.inMin <= probe.value /\ probe.value <= r.inMax) =>
             /\ Min(r.outMin, r.outMax) <= probe.out
             /\ probe.out <= Max(r.outMin, r.outMax)
        /\ (probe.key = "z" /\ probe.value > r.inMin) => probe.out < r.outMin

\* A Z value strictly inside its range has been mapped: the head is below
\* its top position and above its bottom one.
C20_Witness ==
  /\ probe.fn = "mapRange" /\ probe.key = "z"
  /\ probe.value = 27500000
  /\ probe.out < 15 * Q /\ probe.out > 9 * Q


\* C21: handleReset leaves isScanning false and the machine state equal to
\* INITIAL_STATE, and the frame tick that follows a reset leaves the state
\* as the reset made it.
C21_ResetHolds ==
  /\ [](last.op = "reset" => (state = INITIAL_STATE /\ ~isScanning))
  /\ [][(last.op = "reset" /\ last'.op = "frame") => state' = state]_vars


\* C22: a manual edit (a direct write of a or b, a TCP-space write of x, y
\* or z) leaves the stored values of the other four axes as they were.
C22_EditChangesOneAxis ==
  last.op \in {"direct", "tcp"} =>
    \A k \in Axes \ {last.key} : state[k] = last.prev[k]

\* An A edit has changed the tilt while the motor axes were away from
\* their initial values: x, y and z are what they were.
C22_Witness ==
  /\ last.op = "direct" /\ last.key = "a"
  /\ state.a # last.prev.a
  /\ last.prev.x # INITIAL_STATE.x
  /\ state.x = last.prev.x /\ state.y = last.prev.y /\ state.z = last.prev.z


\* C23: at most one animation frame is pending at any time, and when
\* isScanning is false and the effect of that render has run no frame is
\* pending.
C23_AtMostOneFramePending ==
  /\ Cardinality(frames) <= 1
  /\ (~isScanning /\ ~effectPending) => frames = {}


\* C24: toggling the scan flips isScanning and leaves the five axis values
\* as they were (after a stop, at what the last tick wrote); the effect
\* that starts or cancels the loop writes no axis either.
C24_ToggleFlipsFlagOnly ==
  /\ last.op = "toggle" =>
       /\ isScanning = ~last.wasScanning
       /\ state = last.prev
  /\ last.op = "effect" =>
       /\ isScanning = last.wasScanning
       /\ state = last.prev

\* The scan has been stopped after a tick moved the axes: the state is
\* still the orbit state that tick wrote.
C24_Witness ==
  /\ last.op = "toggle" /\ last.wasScanning /\ ~isScanning
  /\ state # INITIAL_STATE
  /\ \E time \in Times : state = OrbitStates[time]


\* C25: the state after a frame tick is the orbit state of the tick's
\* timestamp on all five axes, whatever the state before the tick was.
C25_TickOverwritesAllAxes ==
  last.op = "frame" =>
    /\ state = Orbit(last.value)
    /\ \A k \in Axes : state[k] = OrbitStates[last.value][k]

\* A tick has run over a manually set position: none of the five manual
\* values is left.
C25_Witness ==
  /\ last.op = "frame"
  /\ last.prev.a = 30 * Q /\ last.prev.y = 27500000
  /\ \A k \in Axes : state[k] # last.prev[k]


\* C26: the value each TCP-space control shows for x, y and z lies within
\* the bounds the control is given, both computed with the offset of the
\* current a and b.
C26_TCPValueWithinControlBounds ==
  LET c == TCPControls
  IN  \A k \in {"x", "y", "z"} : c[k].min <= c[k].value /\ c[k].value <= c[k].max

\* An A edit has just shifted the offset while motor Y sat at its upper
\* limit: the Y control shows its own upper bound.
C26_Witness ==
  /\ last.op = "direct" /\ last.key = "a" /\ state.a = 30 * Q
  /\ state.y = DEFAULT_LIMITS["y"].max
  /\ TCPControls["y"].value = TCPControls["y"].max
  /\ TCPControls["y"].max # DEFAULT_LIMITS["y"].max


\* C27: in every reachable state the scene positions rendered from the
\* machine state lie inside the envelope: posX and posY within [-4, 4] and
\* the head height within [9, 15].
C27_SceneInsideEnvelope ==
  LET g == GantryAndHead(state)
  IN  /\ (0 - 4) * Q <= g.posX /\ g.posX <= 4 * Q
      /\ (0 - 4) * Q <= g.posY /\ g.posY <= 4 * Q
      /\ 9 * Q <= g.headWorldY /\ g.headWorldY <= 15 * Q

\* A saturated TCP-space write put motor X at its upper limit while Y and
\* Z are inside their ranges: the gantry is rendered at the edge, X = 4.
C27_Witness ==
  /\ last.op = "tcp" /\ last.key = "x" /\ last.value = 130 * Q
  /\ state.y = 27500000
  /\ GantryAndHead(state).posX = 4 * Q
  /\ GantryAndHead(state).posY = (0 - 1800000)

====
